---- MODULE Spec2Model ----
(***************************************************************************)
(* Decent-mobility evaluation (mobility/__init__.py) and trip selection   *)
(* (mobility/persona.py) as state machines.                                *)
(*                                                                         *)
(*   Spec        one Agent: its location / need / plan fields, the three   *)
(*               methods iter_np, has_decent_mobility, total_distance and  *)
(*               the caller appending an Alternative to the plan.          *)
(*   SpecModel   a Model holding a list of Agents and                      *)
(*               universal_decent_mobility.                                *)
(*   SpecPersona a Persona and compute_trips, one loop iteration per step. *)
(***************************************************************************)
EXTENDS Integers, Sequences, FiniteSets, TLC

VARIABLES
    location,           \* Agent.location : dict LocationType -> Location
    need,               \* Agent.need     : list of Need
    plan,               \* Agent.plan     : list of Alternative
    last,               \* the last method called on the agent and its outcome
    agent,              \* Model.agent    : list of Agent
    model_last,         \* outcome of the last Model.universal_decent_mobility()
    demand,             \* Persona.demand : ordered dict destination -> count
    trips,              \* Persona.trips  : dict destination -> list of Alternative
    call,               \* the compute_trips call in progress, or the last one
    calls,              \* number of compute_trips calls started
    person,             \* retreat.Person     : gender and trip_needs
    tp,                 \* retreat.TravelPlan : period_covered and trips
    retreat_last        \* outcome of the last retreat.has_decent_mobility(person, tp)

vars == <<location, need, plan, last, agent, model_last, demand, trips, call, calls,
         person, tp, retreat_last>>

agent_vars == <<location, need, plan, last>>
model_vars == <<agent, model_last>>
persona_vars == <<demand, trips, call, calls>>
retreat_vars == <<person, tp, retreat_last>>

(***************************************************************************)
(* Bounds of the model.                                                    *)
(***************************************************************************)
MaxNeeds == 2
MaxPlan == 2
MaxAgents == 2
MaxCount == 2
MaxCalls == 2
MaxTrips == 3

(***************************************************************************)
(* Python values.                                                          *)
(***************************************************************************)
\* Python's None, kept a record so that it compares with Need / Alternative records.
None == [none |-> TRUE]

\* The outcome of a call: a returned value or a raised exception.
Return(v) == [kind |-> "return", value |-> v]
Raise(e, msg) == [kind |-> "raise", error |-> e, message |-> msg]
NotCalled == [op |-> "none", kind |-> "none"]

\* Exact square root of a perfect square (the model's coordinates only give such).
Sqrt(n) == CHOOSE r \in 0..n : r * r = n

\* All sequences over S of length at most n.
SeqUpTo(S, n) == UNION {[1..k -> S] : k \in 0..n}

\* sum(x.field for x in sq)
RECURSIVE SeqSum(_, _)
SeqSum(sq, field) ==
    IF sq = <<>> THEN 0 ELSE Head(sq)[field] + SeqSum(Tail(sq), field)

(***************************************************************************)
(* mobility/__init__.py : enumerations and value classes.                  *)
(***************************************************************************)
LocationType == {"home", "work"}
TripPurpose == {"commute", "other"}

GridLocation(x, y) == [x |-> x, y |-> y]

distance_to(self, other) ==
    Sqrt((other.y - self.y) ^ 2 + (other.x - self.x) ^ 2)

Need(purpose, origin, destination, count) ==
    [purpose |-> purpose, origin |-> origin, destination |-> destination,
     count |-> count]

\* Variant of update_distance: the distance depends on the mode as well.
update_distance_by_mode(self) ==
    [self EXCEPT !.distance =
        (IF self.mode = "car" THEN 2 ELSE 1)
            * distance_to(self.origin, self.destination)]

update_distance(self) ==
    [self EXCEPT !.distance = distance_to(self.origin, self.destination)]

\* Alternative(origin=, destination=, mode=): the dataclass defaults, then
\* __post_init__ -> update_distance().
Alternative(origin, destination, mode) ==
    update_distance([origin |-> origin, destination |-> destination,
                     mode |-> mode, cost |-> 0, distance |-> 0,
                     energy |-> 0, time |-> 0])

Agent(loc, needs, alts) == [location |-> loc, need |-> needs, plan |-> alts]

(***************************************************************************)
(* Python's insertion-ordered dict: a sequence of (key, value) entries.    *)
(***************************************************************************)
DictHas(d, k) == \E i \in 1..Len(d) : d[i].key = k

DictGet(d, k) == d[CHOOSE i \in 1..Len(d) : d[i].key = k].value

\* Variant of DictSet: an assigned key always moves to the end of the dict.
DictSet_move_to_end(d, k, v) ==
    Append(SelectSeq(d, LAMBDA e : e.key # k), [key |-> k, value |-> v])

\* d[k] = v : an existing key keeps its position, a new key goes last.
DictSet(d, k, v) ==
    IF DictHas(d, k)
    THEN [i \in 1..Len(d) |-> IF d[i].key = k THEN [key |-> k, value |-> v] ELSE d[i]]
    ELSE Append(d, [key |-> k, value |-> v])

DictValues(d) == [i \in 1..Len(d) |-> d[i].value]

(***************************************************************************)
(* Agent.iter_np                                                           *)
(***************************************************************************)
\* self.location[n.origin], self.location[n.destination] raise KeyError when the
\* role is no key of the dict.
Resolves(loc, n) == n.origin \in DOMAIN loc /\ n.destination \in DOMAIN loc

NeedKey(loc, n) == <<loc[n.origin], loc[n.destination]>>

\* The dict comprehension over self.need.
RECURSIVE NeedTable(_, _, _)
NeedTable(loc, needs, d) ==
    IF needs = <<>> THEN d
    ELSE NeedTable(loc, Tail(needs),
                   DictSet(d, NeedKey(loc, Head(needs)), <<Head(needs), None>>))

\* Variant of MatchAlternative: a key keeps the first alternative attached to it.
MatchAlternative_keep_first(d, a) ==
    LET key == <<a.origin, a.destination>>
    IN  IF DictHas(d, key)
        THEN IF DictGet(d, key)[2] = None
             THEN DictSet(d, key, <<DictGet(d, key)[1], a>>)
             ELSE d
        ELSE DictSet(d, key, <<None, a>>)

\* One iteration of "for a in self.plan".
MatchAlternative(d, a) ==
    LET key == <<a.origin, a.destination>>
    IN  IF DictHas(d, key)
        THEN DictSet(d, key, <<DictGet(d, key)[1], a>>)
        ELSE DictSet(d, key, <<None, a>>)

RECURSIVE MatchPlan(_, _)
MatchPlan(d, alts) ==
    IF alts = <<>> THEN d
    ELSE MatchPlan(MatchAlternative(d, Head(alts)), Tail(alts))

\* Variant of iter_np: a need whose roles do not resolve is left out.
iter_np_skip_unresolved(self) ==
    Return(DictValues(MatchPlan(
        NeedTable(self.location,
                  SelectSeq(self.need, LAMBDA n : Resolves(self.location, n)), <<>>),
        self.plan)))

\* The outcome of exhausting the generator: the list of pairs, or KeyError.
iter_np(self) ==
    IF \E i \in 1..Len(self.need) : ~Resolves(self.location, self.need[i])
    THEN LET i == CHOOSE j \in 1..Len(self.need) :
                    /\ ~Resolves(self.location, self.need[j])
                    /\ \A k \in 1..(j - 1) : Resolves(self.location, self.need[k])
             n == self.need[i]
         IN  Raise("KeyError",
                   IF n.origin \in DOMAIN self.location THEN n.destination
                   ELSE n.origin)
    ELSE Return(DictValues(MatchPlan(NeedTable(self.location, self.need, <<>>),
                                     self.plan)))

(***************************************************************************)
(* Agent.has_decent_mobility                                               *)
(***************************************************************************)
\* Variant of Truthy: a Need with count 0 counts as false.
Truthy_by_count(n) == IF n = None THEN FALSE ELSE n.count # 0

\* bool(need): a Need instance defines neither __bool__ nor __len__, so it is
\* true whatever its count; None is false.
Truthy(n) == n # None

\* Variant of has_decent_mobility: the plan holds at least as many alternatives
\* as there are needs, whatever they connect.
has_decent_mobility_by_len(self) ==
    LET it == iter_np(self)
    IN  IF it.kind = "raise" THEN it
        ELSE Return(Len(self.plan) >= Len(self.need))

has_decent_mobility(self) ==
    LET it == iter_np(self)
    IN  IF it.kind = "raise" THEN it
        ELSE Return(~ \E i \in 1..Len(it.value) :
                        Truthy(it.value[i][1]) /\ it.value[i][2] = None)

(***************************************************************************)
(* Agent.total_distance                                                    *)
(***************************************************************************)
\* Variant of SumDistance: the need's count is left out of the product.
RECURSIVE SumDistance_no_count(_, _)
SumDistance_no_count(pairs, result) ==
    IF pairs = <<>> THEN result
    ELSE LET p == Head(pairs)
         IN  IF p[1] = None \/ p[2] = None
             THEN SumDistance_no_count(Tail(pairs), result)
             ELSE SumDistance_no_count(Tail(pairs), result + p[2].distance)

RECURSIVE SumDistance(_, _)
SumDistance(pairs, result) ==
    IF pairs = <<>> THEN result
    ELSE LET p == Head(pairs)
         IN  IF p[1] = None \/ p[2] = None
             THEN SumDistance(Tail(pairs), result)
             ELSE SumDistance(Tail(pairs), result + p[1].count * p[2].distance)

total_distance(self) ==
    LET it == iter_np(self)
    IN  IF it.kind = "raise" THEN it ELSE Return(SumDistance(it.value, 0))

(***************************************************************************)
(* Model.universal_decent_mobility : all(a.has_decent_mobility() for a in  *)
(* self.agent); all() stops at the first False, an exception propagates.   *)
(***************************************************************************)
\* Variant of universal_decent_mobility: any() in place of all().
RECURSIVE universal_decent_mobility_any(_)
universal_decent_mobility_any(agents) ==
    IF agents = <<>> THEN Return(FALSE)
    ELSE LET r == has_decent_mobility(Head(agents))
         IN  IF r.kind = "raise" THEN r
             ELSE IF r.value THEN Return(TRUE)
             ELSE universal_decent_mobility_any(Tail(agents))

RECURSIVE universal_decent_mobility(_)
universal_decent_mobility(agents) ==
    IF agents = <<>> THEN Return(TRUE)
    ELSE LET r == has_decent_mobility(Head(agents))
         IN  IF r.kind = "raise" THEN r
             ELSE IF ~r.value THEN Return(FALSE)
             ELSE universal_decent_mobility(Tail(agents))

(***************************************************************************)
(* Inputs of the Agent specification.                                      *)
(***************************************************************************)
LocA == GridLocation(0, 0)
LocB == GridLocation(1, 0)
LocC == GridLocation(4, 4)

\* Agent.location dicts: both roles, both roles elsewhere, a role missing,
\* no role at all.
LocationDicts ==
    { [r \in LocationType |-> IF r = "home" THEN LocA ELSE LocB],
      [r \in LocationType |-> IF r = "home" THEN LocB ELSE LocC],
      [r \in {"home"} |-> LocA],
      [r \in {} |-> LocA] }

Counts == {0, 5}

\* Needs between two roles or within home, each with a zero or a positive count.
Needs ==
    {Need("commute", od[1], od[2], c) :
        od \in {<<"home", "work">>, <<"work", "home">>, <<"home", "home">>},
        c \in Counts}

Alternatives ==
    { Alternative(LocA, LocB, "bus"), Alternative(LocA, LocB, "car"),
      Alternative(LocB, LocA, "bus"), Alternative(LocA, LocA, "bus"),
      Alternative(LocB, LocC, "bus") }

\* The agent of test_example0 and of the spec's concrete scenario.
ExampleLocation == [r \in LocationType |-> IF r = "home" THEN LocA ELSE LocB]
ExampleNeed == <<Need("commute", "home", "work", 5), Need("commute", "work", "home", 5)>>
ExamplePlan == <<Alternative(LocA, LocB, "bus"), Alternative(LocB, LocA, "bus")>>

Self == Agent(location, need, plan)

(***************************************************************************)
(* Specification of one Agent.                                             *)
(***************************************************************************)
ModelIdle == agent = <<>> /\ model_last = NotCalled
PersonaIdle == demand = <<>> /\ trips = <<>> /\ call = NotCalled /\ calls = 0
RetreatIdle == person = None /\ tp = None /\ retreat_last = NotCalled

Init ==
    /\ location \in LocationDicts
    /\ need \in SeqUpTo(Needs, MaxNeeds)
    /\ plan = <<>>
    /\ last = NotCalled
    /\ ModelIdle
    /\ PersonaIdle
    /\ RetreatIdle

\* The caller extends the plan: agent.plan.append(Alternative(...)).
AppendAlternative ==
    /\ Len(plan) < MaxPlan
    /\ \E a \in Alternatives : plan' = Append(plan, a)
    /\ last' = NotCalled
    /\ UNCHANGED <<location, need>>
    /\ UNCHANGED <<model_vars, persona_vars, retreat_vars>>

IterNp ==
    /\ last' = [op |-> "iter_np"] @@ iter_np(Self)
    /\ UNCHANGED <<location, need, plan>>
    /\ UNCHANGED <<model_vars, persona_vars, retreat_vars>>

HasDecentMobility ==
    /\ last' = [op |-> "has_decent_mobility"] @@ has_decent_mobility(Self)
    /\ UNCHANGED <<location, need, plan>>
    /\ UNCHANGED <<model_vars, persona_vars, retreat_vars>>

TotalDistance ==
    /\ last' = [op |-> "total_distance"] @@ total_distance(Self)
    /\ UNCHANGED <<location, need, plan>>
    /\ UNCHANGED <<model_vars, persona_vars, retreat_vars>>

Next ==
    \/ AppendAlternative
    \/ IterNp
    \/ HasDecentMobility
    \/ TotalDistance

Spec == Init /\ [][Next]_vars

(***************************************************************************)
(* Specification of a Model: the caller builds the list of agents, assigns *)
(* plans to them (as test_example0 does) and asks for universal decent     *)
(* mobility.                                                               *)
(***************************************************************************)
ModelLocations == {ExampleLocation, [r \in {} |-> LocA]}
ModelNeeds == {<<>>, <<ExampleNeed[1]>>, ExampleNeed}
ModelPlans == {<<>>, <<ExamplePlan[1]>>, ExamplePlan}

AgentIdle == location = <<>> /\ need = <<>> /\ plan = <<>> /\ last = NotCalled

InitModel ==
    /\ agent = <<>>
    /\ model_last = NotCalled
    /\ AgentIdle
    /\ PersonaIdle
    /\ RetreatIdle

\* m.agent.append(Agent(location=..., need=..., plan=[]))
AddAgent ==
    /\ Len(agent) < MaxAgents
    /\ \E loc \in ModelLocations, needs \in ModelNeeds :
          agent' = Append(agent, Agent(loc, needs, <<>>))
    /\ model_last' = NotCalled
    /\ UNCHANGED <<agent_vars, persona_vars, retreat_vars>>

\* a.plan = [...] on an agent of the model
AssignPlan ==
    /\ \E i \in 1..Len(agent), p \in ModelPlans :
          /\ agent[i].plan # p
          /\ agent' = [agent EXCEPT ![i].plan = p]
    /\ model_last' = NotCalled
    /\ UNCHANGED <<agent_vars, persona_vars, retreat_vars>>

UniversalDecentMobility ==
    /\ model_last' = [op |-> "universal_decent_mobility"]
                        @@ universal_decent_mobility(agent)
    /\ UNCHANGED <<agent, agent_vars, persona_vars, retreat_vars>>

NextModel ==
    \/ AddAgent
    \/ AssignPlan
    \/ UniversalDecentMobility

SpecModel == InitModel /\ [][NextModel]_vars

(***************************************************************************)
(* mobility/alternative.py and mobility/persona.py                         *)
(***************************************************************************)
\* alternative.Alternative, the catalog entry of the trip selector.
TravelAlternative(destination, mode, distance, time, energy_demand) ==
    [destination |-> destination, mode |-> mode, distance |-> distance,
     time |-> time, energy_demand |-> energy_demand]

\* Persona.typ_travel_time, and the "10 minutes" of compute_trips' docstring.
typ_travel_time == 30
TimeTolerance == 10

\* Persona.__init__ : self.trips = {key: [] for key in demand.keys()}
InitialTrips(dem) == [i \in 1..Len(dem) |-> [key |-> dem[i].key, value |-> <<>>]]

\* Variant of destination_alternatives: the unavailable modes are not filtered out.
destination_alternatives_any_mode(alternatives, destination, modes_unavailable) ==
    SelectSeq(alternatives, LAMBDA alt : alt.destination = destination)

\* The list comprehension at the head of the loop body.
destination_alternatives(alternatives, destination, modes_unavailable) ==
    SelectSeq(alternatives,
              LAMBDA alt : alt.destination = destination
                           /\ ~(alt.mode \in modes_unavailable))

\* random.choices(population, k=count): every list of count elements drawn
\* with replacement is a possible outcome.
RandomChoices(population, count) ==
    {[i \in 1..count |-> population[sel[i]]] :
        sel \in [1..count -> 1..Len(population)]}

\* Persona._select_min_energy_typ_time: the raise is its first statement.
select_min_energy_typ_time(alternatives, count) ==
    Raise("NotImplementedError", "Not yet implemented")

\* The call record at entry; before keeps self.trips as the call found it, and
\* repeats tells that the call before it returned and had the same arguments.
Running(alternatives, method, modes_unavailable) ==
    [op |-> "compute_trips", kind |-> "running", alternatives |-> alternatives,
     method |-> method, modes_unavailable |-> modes_unavailable, pos |-> 0,
     error |-> "", message |-> [what |-> "", name |-> ""], before |-> trips,
     repeats |-> /\ call.kind = "return"
                 /\ call.alternatives = alternatives
                 /\ call.method = method
                 /\ call.modes_unavailable = modes_unavailable]

\* Variant of NoAlternative: a destination that needs no trip is let through.
NoAlternative_positive_count(candidates, count) == candidates = <<>> /\ count > 0

\* "if not destination_alternatives": the count plays no part.
NoAlternative(candidates, count) == candidates = <<>>

\* Variant of StoreTrips: the selection is added to what was stored.
StoreTrips_extend(stored, destination, selected_alternatives) ==
    DictSet(stored, destination, DictGet(stored, destination) \o selected_alternatives)

\* Variant of StoreTrips: the dict is rebuilt, emptying every other destination.
StoreTrips_reset_others(stored, destination, selected_alternatives) ==
    [i \in 1..Len(stored) |->
        [key |-> stored[i].key,
         value |-> IF stored[i].key = destination THEN selected_alternatives ELSE <<>>]]

\* self.trips[destination] = list(selected_alternatives)
StoreTrips(stored, destination, selected_alternatives) ==
    DictSet(stored, destination, selected_alternatives)

(***************************************************************************)
(* Inputs of the Persona specification.                                    *)
(***************************************************************************)
Destinations == {"work", "home"}
Modes == {"car", "bus"}
Methods == {"random", "min_energy_typ_time", "blabla"}

Car(d) == TravelAlternative(d, "car", 2, 30, 5)
Bus(d) == TravelAlternative(d, "bus", 2, 40, 1)

Catalogs ==
    { <<Car("work"), Bus("work"), Car("home"), Bus("home")>>,
      <<Car("work"), Bus("work")>>,
      <<Car("work"), Bus("home")>> }

\* Ordered dicts destination -> count with distinct keys.
Demands ==
    {dem \in SeqUpTo([key : Destinations, value : 0..MaxCount], Cardinality(Destinations)) :
        \A i, j \in 1..Len(dem) : dem[i].key = dem[j].key => i = j}

(***************************************************************************)
(* Specification of a Persona.  compute_trips runs one iteration of its    *)
(* loop over self.demand.items() per step.                                 *)
(***************************************************************************)
InitPersona ==
    /\ demand \in Demands
    /\ trips = InitialTrips(demand)
    /\ call = NotCalled
    /\ calls = 0
    /\ AgentIdle
    /\ ModelIdle
    /\ RetreatIdle

\* persona.compute_trips(alternatives, method, modes_unavailable) is entered.
ComputeTrips ==
    /\ call.kind # "running"
    /\ calls < MaxCalls
    /\ \E alternatives \in Catalogs, method \in Methods, modes_unavailable \in SUBSET Modes :
          call' = Running(alternatives, method, modes_unavailable)
    /\ calls' = calls + 1
    /\ UNCHANGED <<demand, trips, agent_vars, model_vars, retreat_vars>>

\* One iteration of "for destination, count in self.demand.items()".
ComputeTripsIteration ==
    /\ call.kind = "running"
    /\ call.pos < Len(demand)
    /\ LET destination == demand[call.pos + 1].key
           count == demand[call.pos + 1].value
           candidates == destination_alternatives(call.alternatives, destination,
                                                  call.modes_unavailable)
       IN  IF NoAlternative(candidates, count)
           THEN /\ call' = [call EXCEPT !.kind = "raise", !.error = "ValueError",
                               !.message = [what |-> "no_alternative",
                                            name |-> destination]]
                /\ trips' = trips
           ELSE IF call.method = "random"
           THEN /\ \E selected_alternatives \in RandomChoices(candidates, count) :
                      trips' = StoreTrips(trips, destination, selected_alternatives)
                /\ call' = [call EXCEPT !.pos = @ + 1]
           ELSE IF call.method = "min_energy_typ_time"
           THEN /\ call' = [call EXCEPT
                               !.kind = "raise",
                               !.error = select_min_energy_typ_time(candidates, count).error,
                               !.message = [what |-> "not_implemented", name |-> ""]]
                /\ trips' = trips
           ELSE /\ call' = [call EXCEPT !.kind = "raise", !.error = "ValueError",
                               !.message = [what |-> "invalid_method",
                                            name |-> call.method]]
                /\ trips' = trips
    /\ UNCHANGED <<demand, calls, agent_vars, model_vars, retreat_vars>>

\* The loop is exhausted: compute_trips returns None.
ComputeTripsReturn ==
    /\ call.kind = "running"
    /\ call.pos = Len(demand)
    /\ call' = [call EXCEPT !.kind = "return"]
    /\ UNCHANGED <<demand, trips, calls, agent_vars, model_vars, retreat_vars>>

NextPersona ==
    \/ ComputeTrips
    \/ ComputeTripsIteration
    \/ ComputeTripsReturn

SpecPersona == InitPersona /\ [][NextPersona]_vars

(***************************************************************************)
(* Python floats.  A time is written in the program as a decimal number of *)
(* tenths of an hour; the double it denotes, and every double that sums of *)
(* such numbers produce, is n/10 + e * 2^-56 / 10 for a number of tenths n *)
(* and a small integer error e, kept as the record [n, e].  Rounding is to *)
(* the nearest double, ties to the even mantissa, as IEEE 754 prescribes.  *)
(* Only non-negative values are dealt with.                                *)
(***************************************************************************)
Pow2(k) == 2 ^ k

\* 2^k mod 5
Pow2Mod5(k) == <<1, 2, 4, 3>>[(k % 4) + 1]

\* n/10 + e units is at least 2^(j - 4)
AtLeastPow2(n, e, j) == 8 * n > 5 * Pow2(j) \/ (8 * n = 5 * Pow2(j) /\ e >= 0)

\* The binade of a positive value: doubles in it are 10 * 2^j units apart.
Binade(n, e) ==
    CHOOSE j \in 0..16 : AtLeastPow2(n, e, j) /\ ~AtLeastPow2(n, e, j + 1)

Ulp(n, e) == 10 * Pow2(Binade(n, e))

\* (n * 2^56 + e) mod 2 * Ulp: the position of the value between two doubles
\* of even mantissa.
Residue(n, e) ==
    LET j == Binade(n, e)
    IN  (Pow2(j + 2) * ((Pow2Mod5(54 - j) * (n % 5)) % 5) + e) % (2 * Ulp(n, e))

\* The double nearest to n/10 + e units.
RoundToDouble(n, e) ==
    IF n = 0 THEN [n |-> 0, e |-> 0]
    ELSE LET M == Ulp(n, e)
             R == Residue(n, e)
             r == R % M
         IN  IF 2 * r < M THEN [n |-> n, e |-> e - r]
             ELSE IF 2 * r > M THEN [n |-> n, e |-> e + M - r]
             ELSE IF R >= M THEN [n |-> n, e |-> e + M - r]
             ELSE [n |-> n, e |-> e - r]

\* The float literal of n tenths, e.g. Float(12) for 1.2.
Float(n) == RoundToDouble(n, 0)

\* a + b on floats
FloatAdd(a, b) == RoundToDouble(a.n + b.n, a.e + b.e)

\* The mantissa of a double is odd.
OddMantissa(x) == Residue(x.n, x.e) >= Ulp(x.n, x.e)

\* x / p <= b for a float x >= 0, an int p # 0 and a float b > 0: the quotient
\* rounds to a double <= b exactly when it lies below the middle between b and
\* the next double, or on it while the mantissa of b is even.
FloatQuotientLE(x, p, b) ==
    IF p < 0 THEN TRUE
    ELSE LET dn == x.n - p * b.n
             lim == p * (2 * b.e + Ulp(b.n, b.e))
         IN  IF dn < 0 THEN TRUE
             ELSE IF dn > 0 THEN FALSE
             ELSE 2 * x.e < lim \/ (2 * x.e = lim /\ ~OddMantissa(b))

(***************************************************************************)
(* mobility/retreat.py : the time-budgeted formulation.                    *)
(***************************************************************************)
Gender == {"FLINT*", "male"}

\* Enum("Purpose", "work leisure"): iteration follows the order of definition.
Purpose == <<"work", "leisure">>

Person(gender, trip_needs) == [gender |-> gender, trip_needs |-> trip_needs]

POI(needs_served) == [needs_served |-> needs_served]

Trip(distance, time, destination) ==
    [distance |-> distance, time |-> time, destination |-> destination]

\* period_covered: int = 7
DefaultPeriod == 7

TravelPlan(period_covered, plan_trips) ==
    [period_covered |-> period_covered, trips |-> plan_trips]

\* Persona.trip_needs, the same dict for every persona.
PersonaTripNeeds ==
    <<[key |-> "work", value |-> 4], [key |-> "leisure", value |-> 1]>>

\* TIME_BUDGET = 1.2
TIME_BUDGET == Float(12)

\* sum(...) adds from the left, starting from 0.
RECURSIVE FloatSum(_, _)
FloatSum(times, acc) ==
    IF times = <<>> THEN acc
    ELSE FloatSum(Tail(times), FloatAdd(acc, Head(times)))

\* sum(t.time for t in tp.trips)
travel_time(plan_) ==
    FloatSum([j \in 1..Len(plan_.trips) |-> plan_.trips[j].time], Float(0))

\* sum(map(lambda t: t.destination.needs_served == purpose, tp.trips))
trip_count(plan_, purpose) ==
    Len(SelectSeq(plan_.trips, LAMBDA t : t.destination.needs_served = purpose))

\* The trips one entry of data stands for: count copies of the same trip.
CopiesOf(entry) ==
    [k \in 1..entry.value.count |->
        Trip(entry.value.distance, entry.value.time, POI(entry.key))]

\* make_travel_plan(data): a new plan of the default period.
RECURSIVE ExtendTrips(_, _)
ExtendTrips(plan_trips, data) ==
    IF data = <<>> THEN plan_trips
    ELSE ExtendTrips(plan_trips \o CopiesOf(Head(data)), Tail(data))

make_travel_plan(data) == TravelPlan(DefaultPeriod, ExtendTrips(<<>>, data))

\* counts = {p: trip_count(tp, p) for p in Purpose}
TripCounts(plan_) ==
    [i \in 1..Len(Purpose) |-> [key |-> Purpose[i], value |-> trip_count(plan_, Purpose[i])]]

\* Variant of LookupNeed: a purpose without an entry counts as a need of zero.
LookupNeed_default_zero(needs, p) ==
    IF DictHas(needs, p) THEN Return(DictGet(needs, p)) ELSE Return(0)

\* needs[p]: KeyError for a purpose the dict does not hold.
LookupNeed(needs, p) ==
    IF DictHas(needs, p) THEN Return(DictGet(needs, p)) ELSE Raise("KeyError", p)

\* all(counts[p] >= needs[p] for p in Purpose), from the i-th purpose on: the
\* scan stops at the first purpose that fails the test or whose lookup raises.
RECURSIVE AllNeedsMet(_, _, _)
AllNeedsMet(counts, needs, i) ==
    IF i > Len(Purpose) THEN Return(TRUE)
    ELSE LET p == Purpose[i]
             n == LookupNeed(needs, p)
         IN  IF n.kind = "raise" THEN n
             ELSE IF ~(DictGet(counts, p) >= n.value) THEN Return(FALSE)
             ELSE AllNeedsMet(counts, needs, i + 1)

\* daily_time = travel_time(tp) / tp.period_covered: the dividend and the
\* divisor of the quotient, or ZeroDivisionError (of the int 0 that sum gives
\* for no trip, of a float otherwise).
daily_time(plan_) ==
    IF plan_.period_covered = 0
    THEN Raise("ZeroDivisionError",
               IF plan_.trips = <<>> THEN "division by zero"
               ELSE "float division by zero")
    ELSE Return([dividend |-> travel_time(plan_), divisor |-> plan_.period_covered])

\* daily_time <= TIME_BUDGET
WithinTimeBudget(daily) ==
    FloatQuotientLE(daily.dividend, daily.divisor, TIME_BUDGET)

\* Variant of retreat_has_decent_mobility: the daily time is computed but not
\* compared with the budget.
retreat_has_decent_mobility_needs_only(person_, plan_) ==
    LET daily == daily_time(plan_)
    IN  IF daily.kind = "raise" THEN daily
        ELSE AllNeedsMet(TripCounts(plan_), person_.trip_needs, 1)

\* retreat.has_decent_mobility(person, tp)
retreat_has_decent_mobility(person_, plan_) ==
    LET counts == TripCounts(plan_)
        daily == daily_time(plan_)
        needs == person_.trip_needs
    IN  IF daily.kind = "raise" THEN daily
        ELSE LET met == AllNeedsMet(counts, needs, 1)
             IN  IF met.kind = "raise" THEN met
                 ELSE Return(met.value /\ WithinTimeBudget(daily.value))

(***************************************************************************)
(* Persons and travel plans of the model.                                  *)
(***************************************************************************)
NeedCounts == {0, 1}

\* Dicts Purpose -> count, the empty default of Person included.
TripNeedsDicts ==
    {<<>>}
    \cup {<<[key |-> p, value |-> n]>> : p \in {"work", "leisure"}, n \in NeedCounts}
    \cup {<<[key |-> "work", value |-> n], [key |-> "leisure", value |-> m]>> :
             n \in NeedCounts, m \in NeedCounts}

\* TravelPlan does not check its period: none, a negative one, a day, a week.
Periods == {-1, 0, 1, DefaultPeriod}

\* Trips of 0.1 and of 1.1 hours.
TripTimes == {Float(1), Float(11)}

Trips == {Trip(1, t, POI(p)) : t \in TripTimes, p \in {"work", "leisure"}}

\* The data of make_travel_plan: purpose -> (count, distance, time), in either
\* order of the purposes, for at most MaxTrips trips.
PlanData ==
    {dat \in SeqUpTo([key : {"work", "leisure"},
                      value : [count : 0..MaxTrips, distance : {1}, time : TripTimes]], 2) :
        /\ \A i, j \in 1..Len(dat) : dat[i].key = dat[j].key => i = j
        /\ Len(ExtendTrips(<<>>, dat)) <= MaxTrips}

(***************************************************************************)
(* Specification of a Person with a TravelPlan.                            *)
(***************************************************************************)
InitRetreat ==
    /\ person \in {Person("male", n) : n \in TripNeedsDicts}
    /\ tp \in {TravelPlan(d, ts) : d \in Periods, ts \in SeqUpTo(Trips, MaxTrips)}
    /\ retreat_last = NotCalled
    /\ AgentIdle
    /\ ModelIdle
    /\ PersonaIdle

\* tp = make_travel_plan(data)
MakeTravelPlan ==
    /\ \E data \in PlanData : tp' = make_travel_plan(data)
    /\ retreat_last' = NotCalled
    /\ UNCHANGED <<person, agent_vars, model_vars, persona_vars>>

\* person.trip_needs_from_persona()
TripNeedsFromPersona ==
    /\ person.trip_needs # PersonaTripNeeds
    /\ person' = [person EXCEPT !.trip_needs = PersonaTripNeeds]
    /\ retreat_last' = NotCalled
    /\ UNCHANGED <<tp, agent_vars, model_vars, persona_vars>>

\* has_decent_mobility(person, tp)
RetreatHasDecentMobility ==
    /\ retreat_last' = [op |-> "has_decent_mobility"] @@ retreat_has_decent_mobility(person, tp)
    /\ UNCHANGED <<person, tp, agent_vars, model_vars, persona_vars>>

NextRetreat ==
    \/ MakeTravelPlan
    \/ TripNeedsFromPersona
    \/ RetreatHasDecentMobility

SpecRetreat == InitRetreat /\ [][NextRetreat]_vars

(***************************************************************************)
(* Vocabulary of the claims about one Agent, stated on the agent's fields  *)
(* and not through the dict that iter_np builds.                           *)
(***************************************************************************)
AllResolve == \A i \in 1..Len(need) : Resolves(location, need[i])

AltKey(a) == <<a.origin, a.destination>>

NeedKeys == {NeedKey(location, need[i]) : i \in 1..Len(need)}
PlanKeys == {AltKey(plan[j]) : j \in 1..Len(plan)}

Max(S) == CHOOSE m \in S : \A x \in S : x <= m
Min(S) == CHOOSE m \in S : \A x \in S : m <= x

NeedsAt(k) == {i \in 1..Len(need) : NeedKey(location, need[i]) = k}
AltsAt(k) == {j \in 1..Len(plan) : AltKey(plan[j]) = k}

LastNeedAt(k) == IF NeedsAt(k) = {} THEN None ELSE need[Max(NeedsAt(k))]
LastAltAt(k) == IF AltsAt(k) = {} THEN None ELSE plan[Max(AltsAt(k))]

\* The key a yielded pair stands for.
PairKey(p) == IF p[1] # None THEN NeedKey(location, p[1]) ELSE AltKey(p[2])

\* Position at which a key is first seen: in the needs, else (after them) in the plan.
FirstSeen(k) ==
    IF NeedsAt(k) # {} THEN Min(NeedsAt(k)) ELSE Len(need) + Min(AltsAt(k))

Matched(i) == \E j \in 1..Len(plan) : AltKey(plan[j]) = NeedKey(location, need[i])

Returned(r, v) == r.kind = "return" /\ r.value = v

RECURSIVE SumOver(_, _)
SumOver(S, f) ==
    IF S = {} THEN 0
    ELSE LET x == CHOOSE y \in S : TRUE IN f[x] + SumOver(S \ {x}, f)

(***************************************************************************)
(* C1.  has_decent_mobility() returns True exactly when every need of the  *)
(* agent resolves and has an alternative in the plan with its resolved     *)
(* (origin, destination); when the needs resolve it returns False          *)
(* otherwise, so with needs and an empty plan it is False and with one     *)
(* matching alternative per need it is True.                               *)
(***************************************************************************)
C1_DecentIffEveryNeedMatched ==
    last.op = "has_decent_mobility" =>
        /\ Returned(last, TRUE) <=>
              \A i \in 1..Len(need) : Resolves(location, need[i]) /\ Matched(i)
        /\ AllResolve =>
              /\ last.kind = "return"
              /\ last.value = (\A i \in 1..Len(need) : Matched(i))
              /\ (need # <<>> /\ plan = <<>>) => last.value = FALSE

\* test_example0 after the plan is assigned: one matching alternative per need.
C1_Witness ==
    /\ last.op = "has_decent_mobility"
    /\ location = ExampleLocation /\ need = ExampleNeed /\ plan = ExamplePlan
    /\ Returned(last, TRUE)

(***************************************************************************)
(* C2 as stated.  An agent in which every need without a matching          *)
(* alternative has count 0 has decent mobility.                            *)
(***************************************************************************)
C2_ZeroCountVacuous ==
    (/\ last.op = "has_decent_mobility"
     /\ AllResolve
     /\ \A i \in 1..Len(need) : Matched(i) \/ need[i].count = 0)
        => Returned(last, TRUE)

(***************************************************************************)
(* C2 amended.  The count of a need plays no part in has_decent_mobility():*)
(* the outcome is that of the agent with every count replaced by 5, a      *)
(* need of count 0 without matching alternative makes it False, and with   *)
(* an empty plan it is False exactly when the agent has a need.            *)
(***************************************************************************)
C2_CountPlaysNoPart ==
    last.op = "has_decent_mobility" =>
        /\ [op |-> "has_decent_mobility"] @@
              has_decent_mobility(Agent(location,
                  [i \in 1..Len(need) |-> [need[i] EXCEPT !.count = 5]], plan))
              = last
        /\ (AllResolve /\ \E i \in 1..Len(need) : need[i].count = 0 /\ ~Matched(i))
              => Returned(last, FALSE)
        /\ (AllResolve /\ plan = <<>>) => Returned(last, need = <<>>)

\* An agent whose only need has count 0, with an empty plan: False.
C2_Witness ==
    /\ last.op = "has_decent_mobility"
    /\ location = ExampleLocation
    /\ need = <<Need("commute", "home", "work", 0)>>
    /\ plan = <<>>
    /\ Returned(last, FALSE)

(***************************************************************************)
(* C3.  iter_np() yields exactly one pair per distinct key among the       *)
(* resolved need keys and the plan's keys; the pair holds the last need    *)
(* resolving to the key and the last alternative of the plan with the key, *)
(* each absent (None) when there is none.                                  *)
(***************************************************************************)
C3_OnePairPerKeyLastWins ==
    (last.op = "iter_np" /\ last.kind = "return") =>
        LET pairs == last.value
        IN  /\ Len(pairs) = Cardinality(NeedKeys \cup PlanKeys)
            /\ \A k \in NeedKeys \cup PlanKeys :
                  \E i \in 1..Len(pairs) :
                      /\ PairKey(pairs[i]) = k
                      /\ pairs[i] = <<LastNeedAt(k), LastAltAt(k)>>
                      /\ \A j \in 1..Len(pairs) : PairKey(pairs[j]) = k => j = i

\* Two needs share a key and two alternatives share it: one pair, the later of each.
C3_Witness ==
    /\ last.op = "iter_np"
    /\ location = ExampleLocation
    /\ need = <<Need("commute", "home", "work", 5), Need("commute", "home", "work", 0)>>
    /\ plan = <<Alternative(LocA, LocB, "bus"), Alternative(LocA, LocB, "car")>>
    /\ Returned(last, << <<need[2], plan[2]>> >>)

(***************************************************************************)
(* C4.  iter_np() yields its pairs in first-seen key order (need keys by   *)
(* first occurrence in need, then the keys of unmatched alternatives by    *)
(* first occurrence in plan); the call leaves location, need and plan      *)
(* unchanged, and a second call right after the first yields the same      *)
(* sequence.                                                               *)
(***************************************************************************)
C4_FirstSeenOrder ==
    (last.op = "iter_np" /\ last.kind = "return") =>
        \A i, j \in 1..Len(last.value) :
            i < j => FirstSeen(PairKey(last.value[i])) < FirstSeen(PairKey(last.value[j]))

C4_OrderPreservingAndPure ==
    /\ []C4_FirstSeenOrder
    /\ [][last'.op = "iter_np" =>
              /\ UNCHANGED <<location, need, plan>>
              /\ last.op = "iter_np" => last' = last]_vars

\* The unmatched alternative A->A precedes A->B in the plan and is yielded last.
C4_Witness ==
    /\ last.op = "iter_np"
    /\ location = ExampleLocation
    /\ need = <<Need("commute", "work", "home", 5), Need("commute", "home", "work", 5)>>
    /\ plan = <<Alternative(LocA, LocA, "bus"), Alternative(LocA, LocB, "bus")>>
    /\ Returned(last, << <<need[1], None>>, <<need[2], plan[2]>>, <<None, plan[1]>> >>)

(***************************************************************************)
(* C5 as stated.  universal_decent_mobility() returns True exactly when    *)
(* has_decent_mobility() is True for every agent, an empty model yields    *)
(* True, and one agent whose has_decent_mobility() is False makes it False *)
(* whatever the other agents are.                                          *)
(***************************************************************************)
FalseAgents == {i \in 1..Len(agent) : Returned(has_decent_mobility(agent[i]), FALSE)}
RaisingAgents == {i \in 1..Len(agent) : has_decent_mobility(agent[i]).kind = "raise"}

C5_OneFailingAgentMakesItFalse ==
    model_last.op = "universal_decent_mobility" =>
        /\ Returned(model_last, TRUE) <=>
              \A i \in 1..Len(agent) : Returned(has_decent_mobility(agent[i]), TRUE)
        /\ agent = <<>> => Returned(model_last, TRUE)
        /\ FalseAgents # {} => Returned(model_last, FALSE)

(***************************************************************************)
(* C5 amended.  universal_decent_mobility() returns True exactly when      *)
(* has_decent_mobility() is True for every agent, an empty model yields    *)
(* True; the agents are evaluated in list order up to the first one that   *)
(* is False or raises: if that agent is False the result is False, if it   *)
(* raises (a need's role is missing from its location) the error reaches   *)
(* the caller even when a later agent is False.                            *)
(***************************************************************************)
C5_AllInListOrder ==
    model_last.op = "universal_decent_mobility" =>
        /\ Returned(model_last, TRUE) <=>
              \A i \in 1..Len(agent) : Returned(has_decent_mobility(agent[i]), TRUE)
        /\ agent = <<>> => Returned(model_last, TRUE)
        /\ FalseAgents \cup RaisingAgents # {} =>
              LET first == Min(FalseAgents \cup RaisingAgents)
              IN  IF first \in FalseAgents
                  THEN Returned(model_last, FALSE)
                  ELSE /\ model_last.kind = "raise"
                       /\ model_last.error = "KeyError"

\* A True agent followed by a False one: False.
C5_Witness ==
    /\ model_last.op = "universal_decent_mobility"
    /\ Len(agent) = 2
    /\ Returned(has_decent_mobility(agent[1]), TRUE)
    /\ agent[1].need # <<>>
    /\ Returned(has_decent_mobility(agent[2]), FALSE)
    /\ Returned(model_last, FALSE)

(***************************************************************************)
(* C6.  total_distance() is the sum of need.count * alternative.distance   *)
(* over the pairs of iter_np() with both members present, 0 when there is  *)
(* no such pair, and 10 for the example agent.                             *)
(***************************************************************************)
C6_TotalDistanceIsMatchedSum ==
    (last.op = "total_distance" /\ last.kind = "return") =>
        LET pairs == iter_np(Self).value
            full == {i \in 1..Len(pairs) : pairs[i][1] # None /\ pairs[i][2] # None}
        IN  /\ last.value =
                  SumOver(full, [i \in full |-> pairs[i][1].count * pairs[i][2].distance])
            /\ full = {} => last.value = 0
            /\ (location = ExampleLocation /\ need = ExampleNeed /\ plan = ExamplePlan)
                  => last.value = 10

C6_Witness ==
    /\ last.op = "total_distance"
    /\ location = ExampleLocation /\ need = ExampleNeed /\ plan = ExamplePlan
    /\ Returned(last, 10)

(***************************************************************************)
(* C7.  Appending an alternative to the plan never lowers                  *)
(* total_distance(), the need counts being non-negative.                   *)
(***************************************************************************)
C7_TotalDistanceMonotone ==
    [][(/\ \E a \in Alternatives : plan' = Append(plan, a)
        /\ AllResolve
        /\ \A i \in 1..Len(need) : need[i].count >= 0)
          => total_distance(Agent(location', need', plan')).value
                >= total_distance(Agent(location, need, plan)).value]_vars

\* A second alternative under the key of a need of count 5 has been appended.
C7_Witness ==
    /\ last.op = "total_distance"
    /\ location = ExampleLocation
    /\ need = <<Need("commute", "home", "work", 5)>>
    /\ plan = <<Alternative(LocA, LocB, "car"), Alternative(LocA, LocB, "bus")>>
    /\ Returned(last, 5)

(***************************************************************************)
(* Vocabulary of the claims about a Persona.                               *)
(***************************************************************************)
Finished == call.kind \in {"return", "raise"}

InCatalog(x) == \E j \in 1..Len(call.alternatives) : call.alternatives[j] = x

\* The catalog entries that may serve destination d in the call.
Eligible(d) ==
    {call.alternatives[j] : j \in {k \in 1..Len(call.alternatives) :
        /\ call.alternatives[k].destination = d
        /\ call.alternatives[k].mode \notin call.modes_unavailable}}

Abs(x) == IF x < 0 THEN -x ELSE x

\* The selections of count eligible alternatives for d whose summed time stays
\* within the tolerance around the typical travel time.
FeasibleSelections(d, count) ==
    {sel \in [1..count -> Eligible(d)] :
        Abs(SeqSum(sel, "time") - typ_travel_time) <= TimeTolerance}

(***************************************************************************)
(* C8.  After a successful compute_trips(alternatives, 'random',           *)
(* modes_unavailable), trips[d] holds exactly demand[d] alternatives for   *)
(* every destination d of the demand, each an element of the catalog with  *)
(* destination d and a mode that is not unavailable.                       *)
(***************************************************************************)
C8_RandomSelectionFitsDemand ==
    (call.kind = "return" /\ call.method = "random") =>
        \A i \in 1..Len(demand) :
            LET d == demand[i].key
                chosen == DictGet(trips, d)
            IN  /\ DictHas(trips, d)
                /\ Len(chosen) = demand[i].value
                /\ \A j \in 1..Len(chosen) :
                      /\ InCatalog(chosen[j])
                      /\ chosen[j].destination = d
                      /\ chosen[j].mode \notin call.modes_unavailable

\* With the car unavailable, the bus to work was drawn twice.
C8_Witness ==
    /\ call.kind = "return" /\ call.method = "random"
    /\ call.modes_unavailable = {"car"}
    /\ Len(demand) = 2
    /\ DictHas(trips, "work")
    /\ DictGet(trips, "work") = <<Bus("work"), Bus("work")>>

(***************************************************************************)
(* C9.  compute_trips with 'min_energy_typ_time' succeeds whenever every   *)
(* destination has a feasible selection, and then stores for every         *)
(* destination a feasible selection of demand[d] alternatives of minimal   *)
(* summed energy_demand.                                                   *)
(***************************************************************************)
C9_MinEnergySelection ==
    (/\ Finished
     /\ call.method = "min_energy_typ_time"
     /\ \A i \in 1..Len(demand) :
           FeasibleSelections(demand[i].key, demand[i].value) # {})
        => /\ call.kind = "return"
           /\ \A i \in 1..Len(demand) :
                 LET d == demand[i].key
                     feasible == FeasibleSelections(d, demand[i].value)
                 IN  /\ DictGet(trips, d) \in feasible
                     /\ \A sel \in feasible :
                           SeqSum(DictGet(trips, d), "energy_demand")
                              <= SeqSum(sel, "energy_demand")

(***************************************************************************)
(* C10, for the two supported methods.  compute_trips fails with the       *)
(* no-alternative error, naming a destination without eligible             *)
(* alternative, whenever some destination with positive demand has no      *)
(* eligible alternative in the catalog.                                    *)
(***************************************************************************)
C10_NoFeasibleAlternative ==
    (/\ Finished
     /\ call.method \in {"random", "min_energy_typ_time"}
     /\ \E i \in 1..Len(demand) :
           demand[i].value > 0 /\ Eligible(demand[i].key) = {})
        => /\ call.kind = "raise"
           /\ call.error = "ValueError"
           /\ call.message.what = "no_alternative"
           /\ Eligible(call.message.name) = {}

(***************************************************************************)
(* C11.  compute_trips called with a method other than 'random' and        *)
(* 'min_energy_typ_time' fails with the invalid-method error naming that   *)
(* method, for every demand (an empty one included) and every catalog.     *)
(***************************************************************************)
C11_UnsupportedMethod ==
    (Finished /\ call.method \notin {"random", "min_energy_typ_time"})
        => /\ call.kind = "raise"
           /\ call.error = "ValueError"
           /\ call.message = [what |-> "invalid_method", name |-> call.method]

\* The step stored a selection for the destination at position call.pos + 1.
StoreStep ==
    /\ call.kind = "running" /\ call'.kind = "running"
    /\ call'.pos = call.pos + 1

(***************************************************************************)
(* C12.  Selection overwrites and never merges.  Whenever a compute_trips  *)
(* call has returned, however many calls came before it, trips[d] holds    *)
(* for every destination d exactly demand[d] alternatives, all eligible    *)
(* for d in that most recent call; and the step that stores the selection  *)
(* of a destination leaves the keys, their order and the entry of every    *)
(* other destination as they were.                                         *)
(***************************************************************************)
C12_SelectionOverwrites ==
    /\ [](call.kind = "return" =>
            \A i \in 1..Len(demand) :
                LET chosen == DictGet(trips, demand[i].key)
                IN  /\ Len(chosen) = demand[i].value
                    /\ \A j \in 1..Len(chosen) : chosen[j] \in Eligible(demand[i].key))
    /\ [][StoreStep =>
            /\ Len(trips') = Len(trips)
            /\ \A i \in 1..Len(trips) :
                  /\ trips'[i].key = trips[i].key
                  /\ trips[i].key # demand[call.pos + 1].key => trips'[i] = trips[i]]_vars

\* A second successful call replaced two cars to work by two buses, while the
\* entry of home, stored before, is non-empty.
C12_Witness ==
    /\ calls = 2 /\ call.kind = "return"
    /\ Len(demand) = 2
    /\ DictGet(call.before, "work") = <<Car("work"), Car("work")>>
    /\ DictGet(trips, "work") = <<Bus("work"), Bus("work")>>
    /\ DictGet(trips, "home") # <<>>

(***************************************************************************)
(* C13 as stated.  When a compute_trips call has failed, the stored trips  *)
(* of every destination are exactly what they were before the call.        *)
(***************************************************************************)
C13_NoPartialResults ==
    call.kind = "raise" => trips = call.before

(***************************************************************************)
(* C13 amended.  When a compute_trips call has failed at a destination,    *)
(* the entry of that destination and of every destination after it in the  *)
(* demand are what they were before the call, while every destination      *)
(* processed before it keeps the selection of this call: demand[d]         *)
(* alternatives eligible for d.  Keys and their order are unchanged.       *)
(***************************************************************************)
C13_FailureKeepsEarlierSelections ==
    call.kind = "raise" =>
        /\ call.pos < Len(demand)
        /\ Len(trips) = Len(call.before)
        /\ \A i \in 1..Len(trips) : trips[i].key = call.before[i].key
        /\ \A i \in 1..Len(demand) :
              LET d == demand[i].key
                  chosen == DictGet(trips, d)
              IN  IF i <= call.pos
                  THEN /\ Len(chosen) = demand[i].value
                       /\ \A j \in 1..Len(chosen) : chosen[j] \in Eligible(d)
                  ELSE chosen = DictGet(call.before, d)

\* The second call stored a new selection for the first destination and then
\* failed at the second one, whose entry from the first call is still there.
C13_Witness ==
    /\ call.kind = "raise" /\ call.pos = 1 /\ Len(demand) = 2
    /\ trips[1].value # call.before[1].value
    /\ call.before[2].value # <<>>
    /\ trips[2].value = call.before[2].value

(***************************************************************************)
(* Vocabulary of the claims about a Person and a TravelPlan.               *)
(***************************************************************************)
PurposeSet == {Purpose[i] : i \in 1..Len(Purpose)}

\* Number of trips of the plan whose destination serves purpose p.
TripsServing(p) ==
    Cardinality({j \in 1..Len(tp.trips) : tp.trips[j].destination.needs_served = p})

\* The sum of the values the trips' times hold, as the pair of the summed tenths
\* and the summed errors: the value is tenths / 10 + errors * 2^-56 / 10, with
\* the errors far below one tenth.
TotalTenths == SumOver(1..Len(tp.trips), [j \in 1..Len(tp.trips) |-> tp.trips[j].time.n])
TotalErrors == SumOver(1..Len(tp.trips), [j \in 1..Len(tp.trips) |-> tp.trips[j].time.e])

\* The summed time divided by the covered period is at most the value that
\* TIME_BUDGET holds, in exact arithmetic on the values.
DailyTimeWithinBudget ==
    LET bn == tp.period_covered * TIME_BUDGET.n
        be == tp.period_covered * TIME_BUDGET.e
    IN  \/ /\ tp.period_covered > 0
           /\ TotalTenths < bn \/ (TotalTenths = bn /\ TotalErrors <= be)
        \/ /\ tp.period_covered < 0
           /\ TotalTenths > bn \/ (TotalTenths = bn /\ TotalErrors >= be)

\* Positions in the enumeration of the purposes trip_needs has no entry for.
MissingPurposes == {i \in 1..Len(Purpose) : ~DictHas(person.trip_needs, Purpose[i])}

\* Positions of the purposes whose need exceeds the trips serving them.
UnmetPurposes ==
    {i \in 1..Len(Purpose) :
        /\ DictHas(person.trip_needs, Purpose[i])
        /\ TripsServing(Purpose[i]) < DictGet(person.trip_needs, Purpose[i])}

UnresolvedRoles ==
    {r \in UNION {{need[i].origin, need[i].destination} : i \in 1..Len(need)} :
        r \notin DOMAIN location}

(***************************************************************************)
(* C15.  When a need of the agent refers to a role the location dict does  *)
(* not hold, iter_np, has_decent_mobility and total_distance each end in   *)
(* KeyError naming such a role, with no pair and no result, whatever the   *)
(* plan holds; and each of them returns for an agent without needs, an     *)
(* empty location dict included.                                           *)
(***************************************************************************)
C15_UnresolvedRoleFails ==
    last.op \in {"iter_np", "has_decent_mobility", "total_distance"} =>
        /\ UnresolvedRoles # {} =>
              /\ last.kind = "raise"
              /\ last.error = "KeyError"
              /\ last.message \in UnresolvedRoles
              /\ "value" \notin DOMAIN last
        /\ need = <<>> => last.kind = "return"

\* Only home is located; the second need goes to work; the plan is not empty.
C15_Witness ==
    /\ DOMAIN location = {"home"}
    /\ Len(need) = 2 /\ need[1].destination = "home" /\ need[2].destination = "work"
    /\ plan # <<>>
    /\ last.op = "total_distance"
    /\ last.kind = "raise" /\ last.error = "KeyError" /\ last.message = "work"

(***************************************************************************)
(* C16.  compute_trips has no input besides the demand, the catalog, the   *)
(* method and the unavailable modes, so a random selection that depends on *)
(* its explicit inputs only stores, in a call that repeats the arguments   *)
(* of the successful call before it, the very trips that call stored.      *)
(***************************************************************************)
C16_ReproducibleSelection ==
    (call.kind = "return" /\ call.method = "random" /\ call.repeats)
        => trips = call.before

\* Positions of the demand whose destination has no eligible alternative in the call.
Lacking == {i \in 1..Len(demand) : Eligible(demand[i].key) = {}}

(***************************************************************************)
(* C17 as stated.  With 'random', when every destination of positive       *)
(* demand has an eligible alternative, compute_trips returns and stores an *)
(* empty list for every destination of demand 0, also for one without any  *)
(* eligible alternative.                                                   *)
(***************************************************************************)
C17_OnlyPositiveDemandCanFail ==
    (/\ Finished /\ call.method = "random"
     /\ \A i \in 1..Len(demand) : demand[i].value > 0 => i \notin Lacking)
        => /\ call.kind = "return"
           /\ \A i \in 1..Len(demand) :
                 demand[i].value = 0 => DictGet(trips, demand[i].key) = <<>>

(***************************************************************************)
(* C17 amended.  With 'random', compute_trips returns exactly when every   *)
(* destination of the demand, those of demand 0 included, has an eligible  *)
(* alternative, and then stores an empty list for every destination of     *)
(* demand 0; otherwise it fails with the no-alternative error naming the   *)
(* first destination of the demand without an eligible alternative,        *)
(* whatever its count.                                                     *)
(***************************************************************************)
C17_EveryDestinationNeedsCandidates ==
    (Finished /\ call.method = "random") =>
        IF Lacking = {}
        THEN /\ call.kind = "return"
             /\ \A i \in 1..Len(demand) :
                   demand[i].value = 0 => DictGet(trips, demand[i].key) = <<>>
        ELSE /\ call.kind = "raise"
             /\ call.error = "ValueError"
             /\ call.message = [what |-> "no_alternative",
                                name |-> demand[Min(Lacking)].key]

\* Two trips to work were selected, then home, of which no trip is demanded and
\* to which the catalog does not go, made the call fail.
C17_Witness ==
    /\ call.kind = "raise" /\ call.method = "random"
    /\ demand = <<[key |-> "work", value |-> 2], [key |-> "home", value |-> 0]>>
    /\ Len(DictGet(trips, "work")) = 2
    /\ call.message = [what |-> "no_alternative", name |-> "home"]

(***************************************************************************)
(* C18 as stated.  A purpose without an entry in person.trip_needs is      *)
(* never taken as a need of zero.  When some purpose is missing,           *)
(* has_decent_mobility returns False if a purpose earlier in the           *)
(* enumeration (work, leisure) has fewer trips than its need, and          *)
(* otherwise ends in KeyError for the first missing purpose, with no       *)
(* boolean, whatever the time-budget clause would give.                    *)
(***************************************************************************)
C18_MissingPurposeIsNoZeroNeed ==
    (retreat_last.op = "has_decent_mobility" /\ MissingPurposes # {}) =>
        IF \E i \in UnmetPurposes : i < Min(MissingPurposes)
        THEN Returned(retreat_last, FALSE)
        ELSE /\ retreat_last.kind = "raise"
             /\ retreat_last.error = "KeyError"
             /\ retreat_last.message = Purpose[Min(MissingPurposes)]
             /\ "value" \notin DOMAIN retreat_last

(***************************************************************************)
(* C18 amended.  The daily time is computed before trip_needs is read: for *)
(* a plan whose period_covered is 0 the call ends in ZeroDivisionError,    *)
(* whatever trip_needs holds.  For every other plan, when some purpose is  *)
(* missing from trip_needs, the call returns False if a purpose earlier in *)
(* the enumeration has fewer trips than its need, and otherwise ends in    *)
(* KeyError for the first missing purpose, with no boolean, whether or not *)
(* the travel time is within the budget.                                   *)
(***************************************************************************)
C18_MissingPurposeAfterDailyTime ==
    (retreat_last.op = "has_decent_mobility" /\ MissingPurposes # {}) =>
        IF tp.period_covered = 0
        THEN /\ retreat_last.kind = "raise"
             /\ retreat_last.error = "ZeroDivisionError"
        ELSE IF \E i \in UnmetPurposes : i < Min(MissingPurposes)
        THEN Returned(retreat_last, FALSE)
        ELSE /\ retreat_last.kind = "raise"
             /\ retreat_last.error = "KeyError"
             /\ retreat_last.message = Purpose[Min(MissingPurposes)]
             /\ "value" \notin DOMAIN retreat_last

\* A person with the default empty trip_needs and a plan of a week that exceeds
\* no budget: the lookup of the first purpose fails.
C18_Witness ==
    /\ retreat_last.op = "has_decent_mobility"
    /\ person.trip_needs = <<>>
    /\ tp.trips = <<Trip(1, Float(11), POI("work"))>>
    /\ tp.period_covered = 7
    /\ retreat_last.kind = "raise" /\ retreat_last.message = "work"

====
